---- MODULE Spec2Model ----
(***************************************************************************)
(* add_license_headers.py: a directory walk that inserts an MPL 2.0 header *)
(* into source files.  Text is modelled as sequences of code points, file  *)
(* contents on disk as sequences of bytes, a file name as the sequence of  *)
(* its code points and a path as the sequence of its segments (pathlib's   *)
(* parts).                                                                 *)
(***************************************************************************)
EXTENDS Integers, Sequences, FiniteSets

\* ------------------------------------------------------------------------
\* Static tables (lines 25-84)
\* ------------------------------------------------------------------------

\* the //-comment header block, lines 26-32, as code points
HEADER_TS_JS ==
    <<47, 47, 32, 84, 104, 105, 115, 32, 83, 111, 117, 114, 99, 101, 32, 67, 111, 100, 101,
      32, 70, 111, 114, 109, 32, 105, 115, 32, 115, 117, 98, 106, 101, 99, 116, 32, 116, 111,
      32, 116, 104, 101, 32, 116, 101, 114, 109, 115, 32, 111, 102, 32, 116, 104, 101, 32, 77,
      111, 122, 105, 108, 108, 97, 32, 80, 117, 98, 108, 105, 99, 10, 47, 47, 32, 76, 105, 99,
      101, 110, 115, 101, 44, 32, 118, 46, 32, 50, 46, 48, 46, 32, 73, 102, 32, 97, 32, 99,
      111, 112, 121, 32, 111, 102, 32, 116, 104, 101, 32, 77, 80, 76, 32, 119, 97, 115, 32,
      110, 111, 116, 32, 100, 105, 115, 116, 114, 105, 98, 117, 116, 101, 100, 32, 119, 105,
      116, 104, 32, 116, 104, 105, 115, 10, 47, 47, 32, 102, 105, 108, 101, 44, 32, 89, 111,
      117, 32, 99, 97, 110, 32, 111, 98, 116, 97, 105, 110, 32, 111, 110, 101, 32, 97, 116,
      32, 104, 116, 116, 112, 115, 58, 47, 47, 109, 111, 122, 105, 108, 108, 97, 46, 111, 114,
      103, 47, 77, 80, 76, 47, 50, 46, 48, 47, 46, 10, 47, 47, 10, 47, 47, 32, 67, 111, 112,
      121, 114, 105, 103, 104, 116, 32, 40, 99, 41, 32, 50, 48, 50, 53, 32, 83, 116, 101, 112,
      104, 101, 110, 32, 76, 101, 10, 10>>

\* the <!-- --> header block, lines 34-42, as code points
HEADER_HTML ==
    <<60, 33, 45, 45, 10, 32, 32, 84, 104, 105, 115, 32, 83, 111, 117, 114, 99, 101, 32, 67,
      111, 100, 101, 32, 70, 111, 114, 109, 32, 105, 115, 32, 115, 117, 98, 106, 101, 99, 116,
      32, 116, 111, 32, 116, 104, 101, 32, 116, 101, 114, 109, 115, 32, 111, 102, 32, 116,
      104, 101, 32, 77, 111, 122, 105, 108, 108, 97, 32, 80, 117, 98, 108, 105, 99, 10, 32,
      32, 76, 105, 99, 101, 110, 115, 101, 44, 32, 118, 46, 32, 50, 46, 48, 46, 32, 73, 102,
      32, 97, 32, 99, 111, 112, 121, 32, 111, 102, 32, 116, 104, 101, 32, 77, 80, 76, 32, 119,
      97, 115, 32, 110, 111, 116, 32, 100, 105, 115, 116, 114, 105, 98, 117, 116, 101, 100,
      32, 119, 105, 116, 104, 32, 116, 104, 105, 115, 10, 32, 32, 102, 105, 108, 101, 44, 32,
      89, 111, 117, 32, 99, 97, 110, 32, 111, 98, 116, 97, 105, 110, 32, 111, 110, 101, 32,
      97, 116, 32, 104, 116, 116, 112, 115, 58, 47, 47, 109, 111, 122, 105, 108, 108, 97, 46,
      111, 114, 103, 47, 77, 80, 76, 47, 50, 46, 48, 47, 46, 10, 10, 32, 32, 67, 111, 112,
      121, 114, 105, 103, 104, 116, 32, 40, 99, 41, 32, 50, 48, 50, 53, 32, 83, 116, 101, 112,
      104, 101, 110, 32, 76, 101, 10, 45, 45, 62, 10, 10>>

\* the /* */ header block, lines 44-52, as code points
HEADER_CSS ==
    <<47, 42, 10, 32, 42, 32, 84, 104, 105, 115, 32, 83, 111, 117, 114, 99, 101, 32, 67, 111,
      100, 101, 32, 70, 111, 114, 109, 32, 105, 115, 32, 115, 117, 98, 106, 101, 99, 116, 32,
      116, 111, 32, 116, 104, 101, 32, 116, 101, 114, 109, 115, 32, 111, 102, 32, 116, 104,
      101, 32, 77, 111, 122, 105, 108, 108, 97, 32, 80, 117, 98, 108, 105, 99, 10, 32, 42, 32,
      76, 105, 99, 101, 110, 115, 101, 44, 32, 118, 46, 32, 50, 46, 48, 46, 32, 73, 102, 32,
      97, 32, 99, 111, 112, 121, 32, 111, 102, 32, 116, 104, 101, 32, 77, 80, 76, 32, 119, 97,
      115, 32, 110, 111, 116, 32, 100, 105, 115, 116, 114, 105, 98, 117, 116, 101, 100, 32,
      119, 105, 116, 104, 32, 116, 104, 105, 115, 10, 32, 42, 32, 102, 105, 108, 101, 44, 32,
      89, 111, 117, 32, 99, 97, 110, 32, 111, 98, 116, 97, 105, 110, 32, 111, 110, 101, 32,
      97, 116, 32, 104, 116, 116, 112, 115, 58, 47, 47, 109, 111, 122, 105, 108, 108, 97, 46,
      111, 114, 103, 47, 77, 80, 76, 47, 50, 46, 48, 47, 46, 10, 32, 42, 10, 32, 42, 32, 67,
      111, 112, 121, 114, 105, 103, 104, 116, 32, 40, 99, 41, 32, 50, 48, 50, 53, 32, 83, 116,
      101, 112, 104, 101, 110, 32, 76, 101, 10, 32, 42, 47, 10, 10>>


DIR_node_modules == <<110, 111, 100, 101, 95, 109, 111, 100, 117, 108, 101, 115>>  \* "node_modules"
DIR_vite == <<46, 118, 105, 116, 101>>  \* ".vite"
DIR_out == <<111, 117, 116>>  \* "out"
DIR_dist == <<100, 105, 115, 116>>  \* "dist"
DIR_git == <<46, 103, 105, 116>>  \* ".git"
DIR_pycache == <<95, 95, 112, 121, 99, 97, 99, 104, 101, 95, 95>>  \* "__pycache__"
DIR_cache == <<46, 99, 97, 99, 104, 101>>  \* ".cache"
DIR_coverage == <<99, 111, 118, 101, 114, 97, 103, 101>>  \* "coverage"
DIR_build == <<98, 117, 105, 108, 100>>  \* "build"
EXT_ts == <<46, 116, 115>>  \* ".ts"
EXT_js == <<46, 106, 115>>  \* ".js"
EXT_tsx == <<46, 116, 115, 120>>  \* ".tsx"
EXT_jsx == <<46, 106, 115, 120>>  \* ".jsx"
EXT_html == <<46, 104, 116, 109, 108>>  \* ".html"
EXT_css == <<46, 99, 115, 115>>  \* ".css"
FILE_vite_config == <<118, 105, 116, 101, 46, 99, 111, 110, 102, 105, 103, 46, 116, 115>>  \* "vite.config.ts"
FILE_vite_main_config == <<118, 105, 116, 101, 46, 109, 97, 105, 110, 46, 99, 111, 110, 102, 105, 103, 46, 116, 115>>  \* "vite.main.config.ts"
FILE_vite_preload_config == <<118, 105, 116, 101, 46, 112, 114, 101, 108, 111, 97, 100, 46, 99, 111, 110, 102, 105, 103, 46, 116, 115>>  \* "vite.preload.config.ts"
FILE_vite_renderer_config == <<118, 105, 116, 101, 46, 114, 101, 110, 100, 101, 114, 101, 114, 46, 99, 111, 110, 102, 105, 103, 46, 116, 115>>  \* "vite.renderer.config.ts"
FILE_forge_config == <<102, 111, 114, 103, 101, 46, 99, 111, 110, 102, 105, 103, 46, 116, 115>>  \* "forge.config.ts"
IND_license == <<77, 111, 122, 105, 108, 108, 97, 32, 80, 117, 98, 108, 105, 99, 32, 76, 105, 99, 101, 110, 115, 101>>  \* "Mozilla Public License"
IND_mpl == <<77, 80, 76>>  \* "MPL"
IND_url == <<104, 116, 116, 112, 115, 58, 47, 47, 109, 111, 122, 105, 108, 108, 97, 46, 111, 114, 103, 47, 77, 80, 76, 47, 50, 46, 48>>  \* "https://mozilla.org/MPL/2.0"
IND_copyright == <<67, 111, 112, 121, 114, 105, 103, 104, 116, 32, 40, 99, 41, 32, 50, 48, 50, 53, 32, 83, 116, 101, 112, 104, 101, 110, 32, 76, 101>>  \* "Copyright (c) 2025 Stephen Le"
DOCTYPE == <<60, 33, 68, 79, 67, 84, 89, 80, 69>>  \* "<!DOCTYPE"
BAK == <<46, 98, 97, 107>>  \* ".bak"

\* EXCLUDED_DIRS, lines 55-65
EXCLUDED_DIRS ==
    {DIR_node_modules, DIR_vite, DIR_out, DIR_dist, DIR_git, DIR_pycache,
     DIR_cache, DIR_coverage, DIR_build}

\* the keys of SUPPORTED_EXTENSIONS in dict order, lines 68-75
EXTENSION_KEYS ==
    <<EXT_ts, EXT_js, EXT_tsx, EXT_jsx, EXT_html, EXT_css>>

\* SUPPORTED_EXTENSIONS[ext], lines 68-75
SUPPORTED_EXTENSIONS(ext) ==
    CASE ext = EXT_ts -> HEADER_TS_JS
      [] ext = EXT_js -> HEADER_TS_JS
      [] ext = EXT_tsx -> HEADER_TS_JS
      [] ext = EXT_jsx -> HEADER_TS_JS
      [] ext = EXT_html -> HEADER_HTML
      [] ext = EXT_css -> HEADER_CSS

\* `suffix in SUPPORTED_EXTENSIONS`
IsSupported(ext) ==
    \E i \in 1..Len(EXTENSION_KEYS) : EXTENSION_KEYS[i] = ext

\* EXCLUDED_FILES, lines 78-84
EXCLUDED_FILES ==
    {FILE_vite_config, FILE_vite_main_config, FILE_vite_preload_config,
     FILE_vite_renderer_config, FILE_forge_config}

\* the slice bound of content[:500], line 101
WINDOW == 500

\* ------------------------------------------------------------------------
\* Python str / bytes operations used by the script
\* ------------------------------------------------------------------------

Min(a, b) == IF a <= b THEN a ELSE b

\* s[off:off+len(sub)] == sub, off counted from 0
MatchAt(s, sub, off) ==
    /\ off >= 0
    /\ off + Len(sub) <= Len(s)
    /\ \A j \in 1..Len(sub) : s[off + j] = sub[j]

\* s.find(sub, start): the lowest 0-based index, -1 when absent
Find(s, sub, start) ==
    LET hits == {i \in start..(Len(s) - Len(sub)) : MatchAt(s, sub, i)}
    IN  IF hits = {} THEN -1 ELSE CHOOSE i \in hits : \A k \in hits : i <= k

\* s.rfind(sub): the highest 0-based index, -1 when absent
RFind(s, sub) ==
    LET hits == {i \in 0..(Len(s) - Len(sub)) : MatchAt(s, sub, i)}
    IN  IF hits = {} THEN -1 ELSE CHOOSE i \in hits : \A k \in hits : k <= i

\* sub in s
Contains(s, sub) == \E i \in 0..(Len(s) - Len(sub)) : MatchAt(s, sub, i)

\* s[:n] for n >= 0
Prefix(s, n) == SubSeq(s, 1, Min(n, Len(s)))

\* s[n:] for n >= 0
Suffix(s, n) == SubSeq(s, n + 1, Len(s))

\* s.startswith(sub)
StartsWith(s, sub) == MatchAt(s, sub, 0)

\* s.endswith(sub)
EndsWith(s, sub) == MatchAt(s, sub, Len(s) - Len(sub))

\* the code points for which str.isspace() is true
WHITESPACE ==
    (9..13) \cup (28..32) \cup {133, 160, 5760} \cup (8192..8202)
        \cup {8232, 8233, 8239, 8287, 12288}

\* s.lstrip()
LStrip(s) ==
    LET n == IF \A i \in 1..Len(s) : s[i] \in WHITESPACE
             THEN Len(s)
             ELSE (CHOOSE i \in 1..Len(s) :
                      /\ s[i] \notin WHITESPACE
                      /\ \A k \in 1..(i - 1) : s[k] \in WHITESPACE) - 1
    IN  Suffix(s, n)

\* s.rstrip()
RStrip(s) ==
    LET n == IF \A i \in 1..Len(s) : s[i] \in WHITESPACE
             THEN 0
             ELSE CHOOSE i \in 1..Len(s) :
                      /\ s[i] \notin WHITESPACE
                      /\ \A k \in (i + 1)..Len(s) : s[k] \in WHITESPACE
    IN  Prefix(s, n)

\* s.strip()
Strip(s) == RStrip(LStrip(s))

\* the concatenation parts[lo] \o ... \o parts[hi]
RECURSIVE Concat(_, _, _)
Concat(parts, lo, hi) ==
    IF lo > hi THEN <<>>
    ELSE IF lo = hi THEN parts[lo]
    ELSE LET mid == (lo + hi) \div 2
         IN  Concat(parts, lo, mid) \o Concat(parts, mid + 1, hi)

\* ''.join(parts)
Join(parts) == Concat(parts, 1, Len(parts))

\* the length of the utf-8 sequence a lead byte announces, 0 for a byte
\* that cannot start one
Utf8Len(c) ==
    IF c < 128 THEN 1
    ELSE IF c \in 194..223 THEN 2
    ELSE IF c \in 224..239 THEN 3
    ELSE IF c \in 240..244 THEN 4
    ELSE 0

IsContinuation(c) == c \in 128..191

\* a well-formed utf-8 sequence starts at b[i] (Unicode table 3-7)
Utf8WellFormedAt(b, i) ==
    LET c == b[i]
        n == Utf8Len(c)
    IN  /\ n > 0
        /\ i + n - 1 <= Len(b)
        /\ \A k \in 1..(n - 1) : IsContinuation(b[i + k])
        /\ c = 224 => b[i + 1] >= 160
        /\ c = 237 => b[i + 1] <= 159
        /\ c = 240 => b[i + 1] >= 144
        /\ c = 244 => b[i + 1] <= 143
        /\ i + n <= Len(b) => ~IsContinuation(b[i + n])

\* the code point of the well-formed sequence starting at b[i]
Utf8CodePoint(b, i) ==
    LET c == b[i]
        x(k) == b[i + k] - 128
    IN  CASE Utf8Len(c) = 1 -> c
          [] Utf8Len(c) = 2 -> (c - 192) * 64 + x(1)
          [] Utf8Len(c) = 3 -> (c - 224) * 4096 + x(1) * 64 + x(2)
          [] Utf8Len(c) = 4 -> (c - 240) * 262144 + x(1) * 4096 + x(2) * 64 + x(3)

\* bytes.decode('utf-8'), strict: the code points, or <<-1>> on a
\* UnicodeDecodeError (some byte belongs to no well-formed sequence)
DecodeUtf8(b) ==
    IF /\ Len(b) > 0 => ~IsContinuation(b[1])
       /\ \A i \in 1..Len(b) : ~IsContinuation(b[i]) => Utf8WellFormedAt(b, i)
    THEN Join([i \in 1..Len(b) |->
                  IF IsContinuation(b[i]) THEN <<>> ELSE <<Utf8CodePoint(b, i)>>])
    ELSE <<-1>>

\* bytes.decode('latin-1'): byte k is code point k; never fails
DecodeLatin1(b) == [i \in 1..Len(b) |-> b[i]]

\* str.encode('utf-8') of one code point (no surrogates arise here)
Utf8Of(cp) ==
    IF cp < 128 THEN <<cp>>
    ELSE IF cp < 2048 THEN <<192 + (cp \div 64), 128 + (cp % 64)>>
    ELSE IF cp < 65536
    THEN <<224 + (cp \div 4096), 128 + ((cp \div 64) % 64), 128 + (cp % 64)>>
    ELSE <<240 + (cp \div 262144), 128 + ((cp \div 4096) % 64),
           128 + ((cp \div 64) % 64), 128 + (cp % 64)>>

\* str.encode('utf-8')
EncodeUtf8(t) == Join([i \in 1..Len(t) |-> Utf8Of(t[i])])

\* text-mode read, newline=None: "\r\n" and a lone "\r" become "\n"
UniversalNewlines(t) ==
    Join([i \in 1..Len(t) |->
             IF t[i] = 13 THEN <<10>>
             ELSE IF t[i] = 10 /\ i > 1 /\ t[i - 1] = 13 THEN <<>>
             ELSE <<t[i]>>])

\* os.linesep on a POSIX platform (the paths modelled here are POSIX paths)
linesep == <<10>>

\* text-mode write, newline=None: "\n" becomes os.linesep
WriteNewlines(t, sep) ==
    Join([i \in 1..Len(t) |-> IF t[i] = 10 THEN sep ELSE <<t[i]>>])

\* ------------------------------------------------------------------------
\* pathlib operations used by the script
\* ------------------------------------------------------------------------

\* PurePath.name: the final component
PathName(p) == p[Len(p)]

\* PurePath.suffix of a file name: name[i:] for i = name.rfind('.') when
\* 0 < i < len(name) - 1, else ''
NameSuffix(name) ==
    LET i == RFind(name, <<46>>)
    IN  IF 0 < i /\ i < Len(name) - 1 THEN Suffix(name, i) ELSE <<>>

PathSuffix(p) == NameSuffix(PathName(p))

\* PurePath.with_suffix(suffix)
WithSuffix(p, suffix) ==
    LET name == PathName(p)
        old == NameSuffix(name)
        new == IF old = <<>> THEN name \o suffix
               ELSE Prefix(name, Len(name) - Len(old)) \o suffix
    IN  [p EXCEPT ![Len(p)] = new]

\* a variant that replaces the suffix: file_path.with_suffix('.bak')
BackupPath_replacing(p) == WithSuffix(p, BAK)

\* file_path.with_suffix(file_path.suffix + '.bak'), line 159
BackupPath(p) == WithSuffix(p, PathSuffix(p) \o BAK)

\* str.__lt__: code point order
StrLess(a, b) ==
    \E k \in 0..Min(Len(a), Len(b)) :
        /\ \A j \in 1..k : a[j] = b[j]
        /\ \/ k = Len(a) /\ k < Len(b)
           \/ k < Len(a) /\ k < Len(b) /\ a[k + 1] < b[k + 1]

\* PurePath.__lt__: the parts compared as lists of strings
PathLess(p, q) ==
    \E k \in 0..Min(Len(p), Len(q)) :
        /\ \A j \in 1..k : p[j] = q[j]
        /\ \/ k = Len(p) /\ k < Len(q)
           \/ k < Len(p) /\ k < Len(q) /\ StrLess(p[k + 1], q[k + 1])

\* sorted(): stable insertion of x into the sorted list s
RECURSIVE Insert(_, _)
Insert(s, x) ==
    IF s = <<>> THEN <<x>>
    ELSE IF PathLess(x, s[1]) THEN <<x>> \o s
    ELSE <<s[1]>> \o Insert(Tail(s), x)

RECURSIVE Sorted(_)
Sorted(s) ==
    IF s = <<>> THEN <<>> ELSE Insert(Sorted(SubSeq(s, 1, Len(s) - 1)), s[Len(s)])

\* a set listed in some order (the order the operating system yields entries)
RECURSIVE Listing(_)
Listing(S) ==
    IF S = {} THEN <<>> ELSE LET x == CHOOSE y \in S : TRUE IN <<x>> \o Listing(S \ {x})

\* ------------------------------------------------------------------------
\* The script's functions
\* ------------------------------------------------------------------------

\* a variant that looks at the containing directory's name only
should_skip_directory_parent(dir_path) ==
    Len(dir_path) > 1 /\ dir_path[Len(dir_path) - 1] \in EXCLUDED_DIRS

\* should_skip_directory, lines 87-89
should_skip_directory(dir_path) ==
    \E excluded \in EXCLUDED_DIRS :
        \E i \in 1..Len(dir_path) : dir_path[i] = excluded

\* the indicators list, lines 95-100
INDICATORS == {IND_license, IND_mpl, IND_url, IND_copyright}

\* a variant that searches the whole content
has_license_header_whole(content) ==
    \E indicator \in {IND_license, IND_mpl, IND_url, IND_copyright} :
        Contains(content, indicator)

\* has_license_header, lines 92-101
has_license_header(content) ==
    \E indicator \in INDICATORS : Contains(Prefix(content, WINDOW), indicator)

\* new_content of add_header_to_file, lines 138-151
new_content_of(suffix, content) ==
    LET header == SUPPORTED_EXTENSIONS(suffix)
    IN  IF suffix = EXT_html
        THEN IF StartsWith(Strip(content), DOCTYPE)
             THEN LET doctype_end ==
                          Find(content, <<62>>, Find(content, DOCTYPE, 0)) + 1
                  IN  Prefix(content, doctype_end) \o <<10>> \o header
                          \o LStrip(Suffix(content, doctype_end))
             ELSE header \o content
        ELSE header \o content

\* the text read by lines 118-125: utf-8, and latin-1 on a UnicodeDecodeError
ReadText(bytes) ==
    LET u == DecodeUtf8(bytes)
    IN  UniversalNewlines(IF u = <<-1>> THEN DecodeLatin1(bytes) ELSE u)

\* the bytes stored by lines 165-166: utf-8, "\n" written as os.linesep
WrittenBytes(text, sep) == EncodeUtf8(WriteNewlines(text, sep))

\* ------------------------------------------------------------------------
\* Inputs: names, file contents and directory trees
\* ------------------------------------------------------------------------

NAME_root == <<47>>  \* "/"
NAME_r == <<114>>  \* "r"
NAME_src == <<115, 114, 99>>  \* "src"
NAME_a == <<97>>  \* "a"
NAME_a_b == <<97, 45, 98>>  \* "a-b"
NAME_a_ts == <<97, 46, 116, 115>>  \* "a.ts"
NAME_b_ts == <<98, 46, 116, 115>>  \* "b.ts"
NAME_c_ts == <<99, 46, 116, 115>>  \* "c.ts"
NAME_k_ts == <<107, 46, 116, 115>>  \* "k.ts"
NAME_b_html == <<98, 46, 104, 116, 109, 108>>  \* "b.html"
NAME_c_css == <<99, 46, 99, 115, 115>>  \* "c.css"
NAME_dot_ts == <<46, 116, 115>>  \* ".ts"
NAME_x_js == <<120, 46, 106, 115>>  \* "x.js"
NAME_build_ts == <<98, 117, 105, 108, 100, 46, 116, 115>>  \* "build.ts"
NAME_d_tsx == <<100, 46, 116, 115, 120>>  \* "d.tsx"
TXT_plain == <<99, 111, 110, 115, 116, 32, 120, 32, 61, 32, 49, 59, 10>>  \* "const x = 1;\n"
TXT_latin1 == <<99, 97, 102, 233, 10>>  \* the bytes of "caf\xe9\n": no valid utf-8
TXT_utf8 == <<99, 97, 102, 195, 169, 10>>  \* the utf-8 bytes of "caf\u00e9\n"
TXT_crlf == <<120, 13, 10, 121, 10>>  \* "x\r\ny\n"
TXT_headed == <<47, 47, 32, 77, 80, 76, 10>>  \* "// MPL\n"
TXT_css == <<98, 111, 100, 121, 123, 125>>  \* "body{}"
HTML_doctype == <<60, 33, 68, 79, 67, 84, 89, 80, 69, 32, 104, 116, 109, 108, 62, 10, 60, 104, 116, 109, 108, 62, 60, 47, 104, 116, 109, 108, 62>>  \* "<!DOCTYPE html>\n<html></html>"
HTML_plain == <<60, 104, 116, 109, 108, 62, 60, 47, 104, 116, 109, 108, 62>>  \* "<html></html>"
HTML_lower == <<60, 33, 100, 111, 99, 116, 121, 112, 101, 32, 104, 116, 109, 108, 62, 10, 60, 112, 62>>  \* "<!doctype html>\n<p>"
HTML_unterminated == <<60, 33, 68, 79, 67, 84, 89, 80, 69, 32, 104, 116, 109, 108>>  \* "<!DOCTYPE html"
HTML_spaced == <<32, 10, 60, 33, 68, 79, 67, 84, 89, 80, 69, 32, 104, 116, 109, 108, 62, 32, 32, 10, 32, 60, 112, 62>>  \* " \n<!DOCTYPE html>  \n <p>"

\* at most this many entries in the initial tree
MaxFiles == 2

\* at most this many runs of main() in a behaviour
MaxRuns == 2

\* at most this many failing I/O operations in a behaviour
MaxFaults == 1

Pad(n, c) == [i \in 1..n |-> c]

\* "MPL" ending exactly at the window's end, straddling it, and past it
TXT_in_window == Pad(WINDOW - 3, 120) \o IND_mpl
TXT_straddle == Pad(WINDOW - 2, 120) \o IND_mpl
TXT_past == Pad(WINDOW, 120) \o IND_mpl

\* the copyright line ending exactly at the window's end, and straddling it
TXT_copyright_in == Pad(WINDOW - Len(IND_copyright), 120) \o IND_copyright
TXT_copyright_straddle ==
    Pad(WINDOW - Len(IND_copyright) + 1, 120) \o IND_copyright

\* the licence name, and the URL, at the start of a short file
TXT_license == IND_license \o <<10>>
TXT_url == <<47, 47, 32>> \o IND_url \o <<10>>

\* a DOCTYPE after long leading whitespace, and a long DOCTYPE declaration
HTML_indented == Pad(WINDOW - 50, 32) \o HTML_doctype
HTML_long_doctype ==
    HTML_unterminated \o <<32>> \o Pad(WINDOW - 50, 120) \o <<62, 10>> \o HTML_plain

File(rel, bytes) == [rel |-> rel, bytes |-> bytes]

\* The entries a tree is drawn from: a path relative to the root, and bytes.
\* Files of every category, in both encodings, with and without a header:
RunFiles ==
    {File(<<NAME_a_ts>>, b) :
        b \in {TXT_plain, TXT_latin1, TXT_utf8, TXT_crlf, TXT_headed}}
    \cup {File(<<NAME_b_html>>, HTML_doctype),
          File(<<NAME_c_css>>, TXT_css),
          File(<<NAME_dot_ts>>, TXT_plain)}

\* paths in and out of the excluded directories and file names:
DiscoverFiles ==
    {File(<<NAME_a_ts>>, TXT_plain),
     File(<<NAME_d_tsx>>, TXT_plain),
     File(<<NAME_dot_ts>>, TXT_plain),
     File(<<NAME_build_ts>>, TXT_plain),
     File(<<FILE_vite_config>>, TXT_plain),
     File(<<DIR_node_modules, NAME_x_js>>, TXT_plain),
     File(<<NAME_src, DIR_build, NAME_k_ts>>, TXT_plain),
     File(<<NAME_a, NAME_b_ts>>, TXT_plain),
     File(<<NAME_a_b, NAME_c_ts>>, TXT_plain)}

\* every indicator, inside the window, across its end and past it:
WindowFiles ==
    {File(<<NAME_a_ts>>, b) :
        b \in {TXT_headed, TXT_license, TXT_url, TXT_in_window, TXT_straddle,
               TXT_past, TXT_copyright_in, TXT_copyright_straddle}}
    \cup {File(<<NAME_b_html>>, HTML_plain),
          File(<<NAME_c_css>>, TXT_css)}

\* .html contents with and without the DOCTYPE marker:
HtmlFiles ==
    {File(<<NAME_b_html>>, b) :
        b \in {HTML_doctype, HTML_plain, HTML_lower, HTML_unterminated,
               HTML_spaced, HTML_indented, HTML_long_doctype}}
    \cup {File(<<NAME_a_ts>>, TXT_plain),
          File(<<NAME_c_css>>, TXT_css)}

RECURSIVE TreesUpTo(_, _)
TreesUpTo(n, candidates) ==
    IF n = 0 THEN {{}}
    ELSE LET S == TreesUpTo(n - 1, candidates)
         IN  S \cup {T \cup {c} : T \in S, c \in candidates}

\* the trees of at most MaxFiles entries, one entry per path
Trees(candidates) ==
    {T \in TreesUpTo(MaxFiles, candidates) :
        \A c, d \in T : c.rel = d.rel => c = d}

\* the resolved root directories: /r, and /build/r
ROOT_r == <<NAME_root, NAME_r>>
ROOT_build_r == <<NAME_root, DIR_build, NAME_r>>

\* ------------------------------------------------------------------------
\* State
\* ------------------------------------------------------------------------

VARIABLES
    fs,             \* the files on disk: path -> bytes
    root,           \* args.dir.resolve()
    root_exists,    \* root_dir.exists()
    args,           \* the parsed flags: dry_run, backup
    pc,             \* position in main(): start, loop, backup, write, done
    source_files,   \* the sorted list main() iterates over
    idx,            \* 1-based position of the for loop in source_files
    new_content,    \* new_content of the file being processed
    modified_count, skipped_count, error_count,
    exit_code,      \* the process's exit status, -1 while it runs
    out,            \* the tagged lines printed so far: <<tag, path>>
    run,            \* which run of the script this is
    faults,         \* the failing I/O operations so far
    fs0,            \* the files on disk when this run started
    prev            \* out and exit_code of the previous run

vars ==
    <<fs, root, root_exists, args, pc, source_files, idx, new_content,
      modified_count, skipped_count, error_count, exit_code, out, run, faults,
      fs0, prev>>

NoRun == [out |-> <<>>, exit_code |-> -1]

\* the state when the script is started: a root, a tree below it, the flags
InitWith(roots, candidates) ==
    /\ root \in roots
    /\ args \in [dry_run : BOOLEAN, backup : BOOLEAN]
    /\ root_exists \in BOOLEAN
    /\ \E T \in Trees(candidates) :
          fs = IF root_exists
               THEN [p \in {root \o c.rel : c \in T} |->
                        (CHOOSE c \in T : root \o c.rel = p).bytes]
               ELSE [p \in {} |-> <<>>]
    /\ fs0 = fs
    /\ pc = "start"
    /\ source_files = <<>>
    /\ idx = 1
    /\ new_content = <<>>
    /\ modified_count = 0
    /\ skipped_count = 0
    /\ error_count = 0
    /\ exit_code = -1
    /\ out = <<>>
    /\ run = 1
    /\ faults = 0
    /\ prev = NoRun

\* ------------------------------------------------------------------------
\* find_source_files
\* ------------------------------------------------------------------------

\* root_dir.rglob('*' + ext): the entries below root_dir whose name matches
rglob(root_dir, ext) ==
    {p \in DOMAIN fs :
        /\ Len(p) > Len(root_dir)
        /\ SubSeq(p, 1, Len(root_dir)) = root_dir
        /\ EndsWith(PathName(p), ext)}

\* the inner loop of find_source_files for one extension, lines 179-188
RECURSIVE Filtered(_)
Filtered(listing) ==
    IF listing = <<>> THEN <<>>
    ELSE LET file_path == listing[1]
         IN  IF should_skip_directory(file_path) THEN Filtered(Tail(listing))
             ELSE IF PathName(file_path) \in EXCLUDED_FILES
             THEN Filtered(Tail(listing))
             ELSE <<file_path>> \o Filtered(Tail(listing))

\* the outer loop of find_source_files, line 178
RECURSIVE Collected(_, _)
Collected(root_dir, k) ==
    IF k > Len(EXTENSION_KEYS) THEN <<>>
    ELSE Filtered(Listing(rglob(root_dir, EXTENSION_KEYS[k])))
             \o Collected(root_dir, k + 1)

\* find_source_files, lines 174-190
find_source_files(root_dir) == Sorted(Collected(root_dir, 1))

\* ------------------------------------------------------------------------
\* main and add_header_to_file
\* ------------------------------------------------------------------------

Printed(tag, path) == Append(out, <<tag, path>>)

\* the for loop's bookkeeping once add_header_to_file returns, lines 256-260
Returned(was_modified, log) ==
    /\ modified_count' = IF was_modified THEN modified_count + 1 ELSE modified_count
    /\ skipped_count' = IF was_modified THEN skipped_count ELSE skipped_count + 1
    /\ error_count' = error_count
    /\ out' = log
    /\ idx' = idx + 1
    /\ new_content' = <<>>
    /\ pc' = "loop"

\* a variant without the except clause: the exception ends the loop
Raised_uncaught(file_path) ==
    /\ error_count' = error_count + 1
    /\ UNCHANGED <<modified_count, skipped_count>>
    /\ out' = Printed("ERROR_UNEXPECTED", file_path)
    /\ idx' = idx + 1
    /\ new_content' = <<>>
    /\ pc' = "done"

\* a variant whose except clause counts the file as skipped
Raised_skipped(file_path) ==
    /\ skipped_count' = skipped_count + 1
    /\ UNCHANGED <<modified_count, error_count>>
    /\ out' = Printed("ERROR_UNEXPECTED", file_path)
    /\ idx' = idx + 1
    /\ new_content' = <<>>
    /\ pc' = "loop"

\* the for loop's except clause, lines 261-263
Raised(file_path) ==
    /\ error_count' = error_count + 1
    /\ UNCHANGED <<modified_count, skipped_count>>
    /\ out' = Printed("ERROR_UNEXPECTED", file_path)
    /\ idx' = idx + 1
    /\ new_content' = <<>>
    /\ pc' = "loop"

\* a variant that looks at the backup flag before the dry-run flag
step_after_compute_backup_first(dry_run, backup) ==
    IF backup THEN "backup" ELSE IF dry_run THEN "return" ELSE "write"

\* what add_header_to_file does once new_content is computed, lines 153-163:
\* return at once in a dry run, else copy first when a backup is asked for
step_after_compute(dry_run, backup) ==
    IF dry_run THEN "return" ELSE IF backup THEN "backup" ELSE "write"

\* main up to the for loop, lines 221-252
main_scan ==
    /\ pc = "start"
    /\ IF ~root_exists
       THEN /\ out' = Printed("ERROR_DIR", root)
            /\ exit_code' = 1
            /\ pc' = "done"
            /\ UNCHANGED source_files
       ELSE LET found == find_source_files(root)
            IN  /\ source_files' = found
                /\ IF found = <<>>
                   THEN /\ out' = Printed("WARN_NONE", root)
                        /\ exit_code' = 0
                        /\ pc' = "done"
                   ELSE /\ pc' = "loop"
                        /\ UNCHANGED <<out, exit_code>>
    /\ idx' = 1
    /\ modified_count' = 0
    /\ skipped_count' = 0
    /\ error_count' = 0
    /\ UNCHANGED <<fs, root, root_exists, args, new_content, run, faults, fs0, prev>>

\* add_header_to_file from its entry to the dry-run return, lines 110-155,
\* when the file can be opened
add_header_to_file ==
    /\ pc = "loop"
    /\ idx <= Len(source_files)
    /\ LET file_path == source_files[idx]
           suffix == PathSuffix(file_path)
       IN  IF ~IsSupported(suffix) \/ PathName(file_path) \in EXCLUDED_FILES
           THEN Returned(FALSE, out)
           ELSE LET content == ReadText(fs[file_path])
                IN  IF has_license_header(content)
                    THEN Returned(FALSE, Printed("SKIP", file_path))
                    ELSE IF step_after_compute(args.dry_run, args.backup) = "return"
                    THEN Returned(TRUE, Printed("DRY-RUN", file_path))
                    ELSE /\ new_content' = new_content_of(suffix, content)
                         /\ pc' = step_after_compute(args.dry_run, args.backup)
                         /\ UNCHANGED <<modified_count, skipped_count,
                                        error_count, out, idx>>
    /\ UNCHANGED <<fs, root, root_exists, args, source_files, exit_code,
                   run, faults, fs0, prev>>

\* open() or read() raising something other than UnicodeDecodeError,
\* lines 129-131
add_header_to_file_read_error ==
    /\ pc = "loop"
    /\ idx <= Len(source_files)
    /\ faults < MaxFaults
    /\ LET file_path == source_files[idx]
       IN  /\ IsSupported(PathSuffix(file_path))
           /\ PathName(file_path) \notin EXCLUDED_FILES
           /\ Returned(FALSE, Printed("WARN", file_path))
    /\ faults' = faults + 1
    /\ UNCHANGED <<fs, root, root_exists, args, source_files, exit_code,
                   run, fs0, prev>>

\* shutil.copy2 succeeding, lines 158-161
add_header_to_file_backup ==
    /\ pc = "backup"
    /\ LET file_path == source_files[idx]
           backup_path == BackupPath(file_path)
       IN  /\ fs' = [p \in DOMAIN fs \cup {backup_path} |->
                        IF p = backup_path THEN fs[file_path] ELSE fs[p]]
           /\ out' = Printed("BACKUP", backup_path)
    /\ pc' = "write"
    /\ UNCHANGED <<root, root_exists, args, source_files, idx,
                   new_content, modified_count, skipped_count, error_count,
                   exit_code, run, faults, fs0, prev>>

\* shutil.copy2 raising: the exception leaves add_header_to_file and is
\* caught by main's loop.  The copy may have created the target already.
add_header_to_file_backup_error ==
    /\ pc = "backup"
    /\ faults < MaxFaults
    /\ LET file_path == source_files[idx]
           backup_path == BackupPath(file_path)
       IN  /\ \/ UNCHANGED fs
              \/ fs' = [p \in DOMAIN fs \cup {backup_path} |->
                           IF p = backup_path THEN <<>> ELSE fs[p]]
           /\ Raised(file_path)
    /\ faults' = faults + 1
    /\ UNCHANGED <<root, root_exists, args, source_files, exit_code,
                   run, fs0, prev>>

\* the write succeeding, lines 164-168
add_header_to_file_write ==
    /\ pc = "write"
    /\ LET file_path == source_files[idx]
       IN  /\ fs' = [fs EXCEPT ![file_path] = WrittenBytes(new_content, linesep)]
           /\ Returned(TRUE, Printed("OK", file_path))
    /\ UNCHANGED <<root, root_exists, args, source_files, exit_code,
                   run, faults, fs0, prev>>

\* the write raising, lines 169-171: open() failed and the file is as it
\* was, or open() truncated it and write() failed
add_header_to_file_write_error ==
    /\ pc = "write"
    /\ faults < MaxFaults
    /\ LET file_path == source_files[idx]
       IN  /\ \/ UNCHANGED fs
              \/ fs' = [fs EXCEPT ![file_path] = <<>>]
           /\ Returned(FALSE, Printed("ERROR_WRITE", file_path))
    /\ faults' = faults + 1
    /\ UNCHANGED <<root, root_exists, args, source_files, exit_code,
                   run, fs0, prev>>

\* main after the for loop, lines 265-288
main_summary ==
    /\ pc = "loop"
    /\ idx > Len(source_files)
    /\ out' = Printed("SUMMARY", root)
    /\ exit_code' = IF error_count > 0 THEN 1 ELSE 0
    /\ pc' = "done"
    /\ UNCHANGED <<fs, root, root_exists, args, source_files, idx,
                   new_content, modified_count, skipped_count, error_count,
                   run, faults, fs0, prev>>

\* the script is started again on the tree the last run left behind
run_again ==
    /\ pc = "done"
    /\ run < MaxRuns
    /\ run' = run + 1
    /\ prev' = [out |-> out, exit_code |-> exit_code]
    /\ fs0' = fs
    /\ pc' = "start"
    /\ source_files' = <<>>
    /\ idx' = 1
    /\ modified_count' = 0
    /\ skipped_count' = 0
    /\ error_count' = 0
    /\ exit_code' = -1
    /\ out' = <<>>
    /\ UNCHANGED <<fs, root, root_exists, args, new_content, faults>>

Next ==
    \/ main_scan
    \/ add_header_to_file
    \/ add_header_to_file_read_error
    \/ add_header_to_file_backup
    \/ add_header_to_file_backup_error
    \/ add_header_to_file_write
    \/ add_header_to_file_write_error
    \/ main_summary
    \/ run_again

Init == InitWith({ROOT_r}, RunFiles)
InitDiscover == InitWith({ROOT_r, ROOT_build_r}, DiscoverFiles)
InitWindow == InitWith({ROOT_r}, WindowFiles)
InitHtml == InitWith({ROOT_r}, HtmlFiles)

Spec == Init /\ [][Next]_vars
SpecDiscover == InitDiscover /\ [][Next]_vars
SpecWindow == InitWindow /\ [][Next]_vars
SpecHtml == InitHtml /\ [][Next]_vars

\* ------------------------------------------------------------------------
\* Properties
\* ------------------------------------------------------------------------

Tagged(log, tag, path) == \E i \in 1..Len(log) : log[i] = <<tag, path>>

\* some line of the log reports a failure
Faulted(log) ==
    \E i \in 1..Len(log) :
        log[i][1] \in {"WARN", "ERROR_WRITE", "ERROR_UNEXPECTED", "ERROR_DIR"}

Discovered == {source_files[i] : i \in 1..Len(source_files)}

\* the path with ".bak" appended to its full name
AppendBak(p) == [p EXCEPT ![Len(p)] = @ \o BAK]

HasExcludedSegment(p) == \E i \in 1..Len(p) : p[i] \in EXCLUDED_DIRS

\* an indicator lies entirely within the first WINDOW characters
InWindow(text) ==
    LET n == Min(WINDOW, Len(text))
    IN  \E k \in 1..n :
            \E ind \in INDICATORS :
                /\ text[k] = ind[1]
                /\ k + Len(ind) - 1 <= n
                /\ \A j \in 2..Len(ind) : text[k + j - 1] = ind[j]

\* the run ended by printing the summary
SummaryReached ==
    pc = "done" /\ Len(out) > 0 /\ out[Len(out)] = <<"SUMMARY", root>>

\* C1: after a non-dry run that completed without error, a second run
\* leaves every file as it was and reports every discovered file as skipped.
C1_Idempotent ==
    (run > 1 /\ pc = "done" /\ ~args.dry_run /\ prev.exit_code = 0
        /\ ~Faulted(prev.out))
    => /\ fs = fs0
       /\ modified_count = 0
       /\ skipped_count = Len(source_files)

\* C2 as stated: a dry run changes no file and creates none, and every
\* discovered file that is readable and has no header is counted as modified.
C2_DryRunCountsEveryReadable ==
    args.dry_run
    => /\ fs = fs0
       /\ pc = "done" =>
            modified_count = Cardinality(
                {i \in 1..Len(source_files) :
                    /\ ~Tagged(out, "WARN", source_files[i])
                    /\ ~InWindow(ReadText(fs0[source_files[i]]))})

\* C2 as amended: a dry run changes no file and creates none, and every
\* discovered file that is readable, has no header and has a name with a
\* supported suffix (a name that is only an extension, like ".ts", has no
\* suffix) is counted as modified.
C2_DryRun ==
    args.dry_run
    => /\ fs = fs0
       /\ pc = "done" =>
            modified_count = Cardinality(
                {i \in 1..Len(source_files) :
                    /\ IsSupported(PathSuffix(source_files[i]))
                    /\ ~Tagged(out, "WARN", source_files[i])
                    /\ ~InWindow(ReadText(fs0[source_files[i]]))})

C2_Witness ==
    /\ args.dry_run
    /\ args.backup
    /\ pc = "done"
    /\ modified_count > 0
    /\ \E p \in Discovered : Tagged(out, "WARN", p)

\* C3: in backup mode, when the overwrite of a file starts the file's
\* pre-run bytes are stored at <name>.bak, and they stay there after the
\* overwrite.
C3_BackupBeforeWrite ==
    (args.backup /\ ~args.dry_run)
    => /\ pc = "write" =>
            LET p == source_files[idx]
            IN  /\ AppendBak(p) \in DOMAIN fs
                /\ fs[AppendBak(p)] = fs0[p]
                /\ fs[p] = fs0[p]
       /\ \A p \in Discovered :
            (Tagged(out, "OK", p) \/ Tagged(out, "ERROR_WRITE", p))
            => /\ AppendBak(p) \in DOMAIN fs
               /\ fs[AppendBak(p)] = fs0[p]

C3_Witness ==
    /\ args.backup
    /\ pc = "done"
    /\ \E p \in Discovered :
          /\ Tagged(out, "OK", p)
          /\ fs[p] # fs0[p]
          /\ fs[AppendBak(p)] = fs0[p]

\* C4: a failed overwrite is counted as an error and makes the exit code 1;
\* the exit code is 1 exactly when some per-file error occurred or the root
\* directory does not exist.
C4_WriteFailureIsError ==
    pc = "done"
    => /\ \A p \in Discovered :
            Tagged(out, "ERROR_WRITE", p) => error_count > 0 /\ exit_code = 1
       /\ exit_code = 1 <=>
            \/ ~root_exists
            \/ \E i \in 1..Len(out) :
                  out[i][1] \in {"ERROR_WRITE", "ERROR_UNEXPECTED"}

\* C5: no discovered path has an excluded directory among its segments or an
\* excluded file name; every file with a supported suffix that matches
\* neither exclusion is discovered; an excluded file is never changed, never
\* backed up and never named in the output.
C5_Discovery ==
    (pc # "start" /\ root_exists)
    => /\ \A p \in Discovered :
            ~HasExcludedSegment(p) /\ PathName(p) \notin EXCLUDED_FILES
       /\ \A p \in DOMAIN fs0 :
            (/\ IsSupported(PathSuffix(p))
             /\ ~HasExcludedSegment(p)
             /\ PathName(p) \notin EXCLUDED_FILES) => p \in Discovered
       /\ \A p \in DOMAIN fs0 :
            (HasExcludedSegment(p) \/ PathName(p) \in EXCLUDED_FILES)
            => /\ fs[p] = fs0[p]
               /\ AppendBak(p) \in DOMAIN fs => AppendBak(p) \in DOMAIN fs0
               /\ \A i \in 1..Len(out) : out[i][2] \notin {p, AppendBak(p)}

C5_Witness ==
    /\ pc = "done"
    /\ \E p \in Discovered : Tagged(out, "OK", p)
    /\ \/ \E p \in DOMAIN fs0 :
             IsSupported(PathSuffix(p)) /\ HasExcludedSegment(p)
       \/ \E p \in DOMAIN fs0 : PathName(p) \in EXCLUDED_FILES

\* C6: a file the loop has reached that has an indicator entirely within its
\* first 500 characters is skipped, keeps its bytes and gets no backup,
\* whatever the flags; a file whose only indicator lies past or across
\* character 500 is not skipped as already having a header.
C6_HeaderWindow ==
    \A i \in 1..Min(idx, Len(source_files)) :
        LET p == source_files[i]
        IN  IsSupported(PathSuffix(p))
            => IF InWindow(ReadText(fs0[p]))
               THEN /\ fs[p] = fs0[p]
                    /\ AppendBak(p) \in DOMAIN fs
                         => /\ AppendBak(p) \in DOMAIN fs0
                            /\ fs[AppendBak(p)] = fs0[AppendBak(p)]
                    /\ \A k \in 1..Len(out) :
                         out[k][2] \in {p, AppendBak(p)}
                             => out[k][1] \in {"SKIP", "WARN"}
                    /\ i < idx => Tagged(out, "SKIP", p) \/ Tagged(out, "WARN", p)
                    /\ pc = "done" => modified_count < Len(source_files)
               ELSE /\ ~Tagged(out, "SKIP", p)
                    /\ i < idx =>
                         \E k \in 1..Len(out) :
                             /\ out[k][2] = p
                             /\ out[k][1] \in {"DRY-RUN", "OK", "WARN",
                                               "ERROR_WRITE", "ERROR_UNEXPECTED"}

C6_Witness ==
    /\ pc = "done"
    /\ args.backup
    /\ ~args.dry_run
    /\ \E p \in Discovered :
          /\ Tagged(out, "SKIP", p)
          /\ Len(fs[p]) = WINDOW
          /\ AppendBak(p) \notin DOMAIN fs

\* C7: a file the run modified holds, after the inserted header, its original
\* content with the bytes it had before the run (stated for the files whose
\* header is prepended: every suffix but .html).
C7_BytesPreserved ==
    \A p \in Discovered :
        (Tagged(out, "OK", p) /\ PathSuffix(p) # EXT_html)
        => fs[p] = SUPPORTED_EXTENSIONS(PathSuffix(p)) \o fs0[p]

\* C8: for .html content whose stripped form begins with <!DOCTYPE the header
\* is placed after the DOCTYPE declaration and never before it, also when no
\* '>' follows the marker; without the marker the result is header + content.
C8_HeaderAfterDoctype ==
    (pc \in {"backup", "write"} /\ PathSuffix(source_files[idx]) = EXT_html)
    => LET content == ReadText(fs0[source_files[idx]])
           marked == \E k \in 0..Len(content) :
                        /\ \A j \in 1..k : content[j] \in WHITESPACE
                        /\ MatchAt(content, DOCTYPE, k)
       IN  IF marked
           THEN /\ Find(new_content, DOCTYPE, 0) >= 0
                /\ Find(new_content, DOCTYPE, 0) < Find(new_content, HEADER_HTML, 0)
           ELSE new_content = HEADER_HTML \o content

\* The list is in strictly ascending order (so no path occurs twice), the
\* loop has handled exactly the files before idx, it is never past the end of
\* the list with a file in hand, and a run that found files ends only by
\* printing the summary after the last file.
C9_Order ==
    /\ \A i, j \in 1..Len(source_files) :
          i < j => PathLess(source_files[i], source_files[j])
    /\ pc \in {"loop", "backup", "write"}
          => /\ source_files # <<>>
             /\ idx \in 1..(Len(source_files) + 1)
             /\ idx = modified_count + skipped_count + error_count + 1
    /\ pc \in {"backup", "write"} => idx <= Len(source_files)
    /\ (pc = "done" /\ source_files # <<>>)
          => /\ SummaryReached
             /\ idx = Len(source_files) + 1
             /\ modified_count + skipped_count + error_count = Len(source_files)

\* Every step of the loop, a failing one included, either moves on within the
\* current file or moves to the next file; the loop is left only past the end.
C9_Step ==
    pc \in {"loop", "backup", "write"}
    => \/ pc' \in {"backup", "write"} /\ idx' = idx /\ source_files' = source_files
       \/ pc' = "loop" /\ idx' = idx + 1 /\ source_files' = source_files
       \/ pc' = "done" /\ idx' = idx /\ idx > Len(source_files)

\* C9: the files are processed one by one in ascending order of their paths
\* (compared segment by segment), none twice; a failure on one file (read,
\* backup, write) moves the loop to the next file; a run that found files
\* ends with the summary.
C9_EveryFileOnce == []C9_Order /\ [][C9_Step]_vars

C9_Witness ==
    /\ SummaryReached
    /\ Len(source_files) > 1
    /\ Faulted(out)
    /\ out[Len(out) - 1][1] = "OK"

\* C10: in backup mode a file whose backup copy failed keeps its pre-run
\* bytes, is counted as an error and makes the exit code 1; no file differs
\* from its pre-run bytes unless its backup was made first.
C10_BackupFailure ==
    (args.backup /\ ~args.dry_run)
    => /\ \A p \in Discovered :
            Tagged(out, "ERROR_UNEXPECTED", p)
            => /\ fs[p] = fs0[p]
               /\ error_count >= 1
               /\ pc = "done" => exit_code = 1
       /\ \A p \in Discovered :
            fs[p] # fs0[p] => Tagged(out, "BACKUP", AppendBak(p))

C10_Witness ==
    /\ args.backup
    /\ pc = "done"
    /\ exit_code = 1
    /\ \E p \in Discovered : Tagged(out, "ERROR_UNEXPECTED", p)
    /\ \E p \in Discovered : Tagged(out, "OK", p)

====
